---- MODULE Spec2Model ----
(***************************************************************************)
(* A model of the trivia engine of expression_game:                        *)
(*   games/games/_question.py    Question (validated, frozen record)       *)
(*   games/games/trivia_game.py  TriviaGame (session selection / scoring)  *)
(*                                                                         *)
(* Strings are sequences of one-character strings, so that str.strip and   *)
(* str.lower are computed, not assumed.  Optional values are sequences of  *)
(* length at most one: None is <<>> and a present value x is <<x>>.        *)
(***************************************************************************)
EXTENDS Integers, Sequences, FiniteSets, TLC

VARIABLES
    game,     \* engine id -> the TriviaGame dataclass fields
    hist,     \* engine id -> what the last successful start_game built (history)
    call,     \* the last call made: operation, engine, result, exception and
              \* (for a start_game that succeeded) the filters it applied
    script,   \* the start_game arguments shared by the engines of SpecDet
    raw,      \* the field values handed to Question(...)
    built,    \* the outcome of that construction
    restored, \* the outcome of Question.from_dict(q.to_dict()) for the built q
    reply,    \* the model's reply handed to QuestionGenerator.generate_question
    QuestionsBank, \* the class attributes bank, categories and difficulties
    instances,     \* one entry per QuestionsBank() created: the questions
                   \* added through that object, in order (history)
    host,     \* a TriviaGame constructed over a bank object (tuple or instance)
    current,  \* the question the player was served and has not answered yet
    session   \* the app's TriviaSession around engine 1, once there is one

vars ==
    <<game, hist, call, script, raw, built, restored, reply, QuestionsBank,
      instances, host, current, session>>

----------------------------------------------------------------------------
(* Bounds of the model *)

RngMod == 3        \* number of states of the abstract random source
MaxNext == 4       \* next_question calls counted per session
MaxScore == 2      \* answer_question is called while score < MaxScore
NegRounds == 1     \* start_game is tried with rounds from -NegRounds ...
MaxRounds == 4     \* ... up to MaxRounds

----------------------------------------------------------------------------
(* Python values *)

None == <<>>
Some(x) == <<x>>

Range(s) == {s[i] : i \in DOMAIN s}

Whitespace == {" "}

UpperCase == <<"A","B","C","D","E","F","G","H","I","J","K","L","M",
               "N","O","P","Q","R","S","T","U","V","W","X","Y","Z">>
LowerCase == <<"a","b","c","d","e","f","g","h","i","j","k","l","m",
               "n","o","p","q","r","s","t","u","v","w","x","y","z">>

\* the lower-case letter of every upper-case letter
LowerTable ==
    [c \in Range(UpperCase) |->
        LowerCase[CHOOSE i \in DOMAIN UpperCase : UpperCase[i] = c]]

LowerChar(c) == IF c \in DOMAIN LowerTable THEN LowerTable[c] ELSE c

\* str.lower()
Lower(s) == [i \in 1..Len(s) |-> LowerChar(s[i])]

RECURSIVE LStrip(_)
LStrip(s) ==
    IF s # <<>> /\ Head(s) \in Whitespace THEN LStrip(Tail(s)) ELSE s

RECURSIVE RStrip(_)
RStrip(s) ==
    IF s # <<>> /\ s[Len(s)] \in Whitespace
    THEN RStrip(SubSeq(s, 1, Len(s) - 1))
    ELSE s

\* str.strip()
Strip(s) == RStrip(LStrip(s))

\* x[:n] for a Python list x and an integer n (a negative n counts from the end)
SlicePrefix(x, n) ==
    IF n >= 0
    THEN SubSeq(x, 1, IF n < Len(x) THEN n ELSE Len(x))
    ELSE SubSeq(x, 1, IF Len(x) + n > 0 THEN Len(x) + n ELSE 0)


----------------------------------------------------------------------------
(* _question.py: the Question record and its validators *)

History == <<"H","i","s","t","o","r","y">>
Science == <<"S","c","i","e","n","c","e">>
Geography == <<"G","e","o","g","r","a","p","h","y">>
Sports == <<"S","p","o","r","t","s">>
Entertainment == <<"E","n","t","e","r","t","a","i","n","m","e","n","t">>
Literature == <<"L","i","t","e","r","a","t","u","r","e">>
Technology == <<"T","e","c","h","n","o","l","o","g","y">>
Art == <<"A","r","t">>

CATEGORIES ==
    <<History, Science, Geography, Sports, Entertainment, Literature,
      Technology, Art>>

easy == <<"e","a","s","y">>
medium == <<"m","e","d","i","u","m">>
hard == <<"h","a","r","d">>

VALID_DIFFICULTIES == <<easy, medium, hard>>

\* A validator either returns a value or raises GameError.
Raise == <<>>
Return(v) == <<v>>

_validate_category(value) ==
    IF value \notin Range(CATEGORIES) THEN Raise ELSE Return(value)

_validate_question(value) ==
    IF value = <<>> THEN Raise ELSE Return(value)

_validate_options(value) ==
    LET options == [i \in 1..Len(value) |-> Strip(value[i])]
    IN  IF Len(options) < 2 THEN Raise
        ELSE IF \E i \in DOMAIN options : options[i] = <<>> THEN Raise
        ELSE Return(options)

_validate_answer(value) ==
    IF value = <<>> THEN Raise ELSE Return(value)

_normalize_difficulty(value) ==
    LET difficulty == IF Lower(value) = <<>> THEN medium ELSE Lower(value)
    IN  IF difficulty \notin Range(VALID_DIFFICULTIES) THEN Raise
        ELSE Return(difficulty)

\* a model validator that accepts any answer
_ensure_answer_unchecked(self) == Return(self)

_ensure_answer_in_options(self) ==
    IF self.answer \notin Range(self.options) THEN Raise ELSE Return(self)

\* str_strip_whitespace = True: every str field is stripped before its
\* validator runs; an omitted difficulty takes the default "medium" and an
\* omitted explanation the default None.
StripOpt(o) == IF o = None THEN None ELSE Some(Strip(o[1]))

\* Question(**fields): the constructed instance, or GameError raised by the
\* first validator that rejects (GameError is no ValueError, so pydantic lets
\* it through unchanged).
Question(fields) ==
    LET category   == _validate_category(Strip(fields.category))
        question   == _validate_question(Strip(fields.question))
        options    == _validate_options(
                          [i \in 1..Len(fields.options) |-> Strip(fields.options[i])])
        answer     == _validate_answer(Strip(fields.answer))
        difficulty == IF fields.difficulty = None THEN Return(medium)
                      ELSE _normalize_difficulty(Strip(fields.difficulty[1]))
    IN  IF \/ category = Raise \/ question = Raise \/ options = Raise
           \/ answer = Raise \/ difficulty = Raise
        THEN [exc |-> "GameError", q |-> None]
        ELSE LET self == [category    |-> category[1],
                          question    |-> question[1],
                          options     |-> options[1],
                          answer      |-> answer[1],
                          explanation |-> StripOpt(fields.explanation),
                          difficulty  |-> difficulty[1]]
             IN  IF _ensure_answer_in_options(self) = Raise
                 THEN [exc |-> "GameError", q |-> None]
                 ELSE [exc |-> "", q |-> Some(self)]

\* a dump that leaves the difficulty key out
to_dict_without_difficulty(self) ==
    [category |-> self.category, question |-> self.question,
     options |-> self.options, answer |-> self.answer,
     explanation |-> self.explanation]

\* model_dump: a dict with one key per field (the explanation value is None
\* or a string); the options tuple becomes a list with the same items.
to_dict(self) ==
    [category |-> self.category, question |-> self.question,
     options |-> self.options, answer |-> self.answer,
     explanation |-> self.explanation, difficulty |-> self.difficulty]

RequiredKeys == {"category", "question", "options", "answer"}

\* model_validate(data): a missing required key is a ValidationError, which
\* from_dict turns into ValueError; a GameError raised by a validator is
\* neither and leaves from_dict unchanged.
from_dict(data) ==
    IF ~(RequiredKeys \subseteq DOMAIN data)
    THEN [exc |-> "ValueError", q |-> None]
    ELSE Question([category    |-> data.category,
                   question    |-> data.question,
                   options     |-> data.options,
                   answer      |-> data.answer,
                   explanation |-> IF "explanation" \in DOMAIN data
                                   THEN data.explanation ELSE None,
                   difficulty  |-> IF "difficulty" \in DOMAIN data
                                   THEN Some(data.difficulty) ELSE None])

\* a comparison that forgets to fold case
normalized_answer_keeps_case(self) == Strip(self.answer)

normalized_answer(self) == Lower(Strip(self.answer))

----------------------------------------------------------------------------
(* trivia_game.py: the question banks an engine is constructed with *)

Q_Uranium ==
    Question([category |-> Science, question |-> <<"h","e","a","v","y","?">>,
              options |-> <<<<"U","r">>, <<"O","s">>>>, answer |-> <<"U","r">>,
              explanation |-> None, difficulty |-> None]).q[1]

Q_Nitrogen ==
    Question([category |-> Science, question |-> <<"g","a","s","?">>,
              options |-> <<<<"O","2">>, <<"N","2">>>>, answer |-> <<"N","2">>,
              explanation |-> None, difficulty |-> Some(easy)]).q[1]

Q_Curie ==
    Question([category |-> History, question |-> <<"n","o","b","e","l","?">>,
              options |-> <<<<"M"," ","C","u","r","i","e">>, <<"A","d","a">>>>, answer |-> <<"M"," ","C","u","r","i","e">>,
              explanation |-> Some(<<"1","9","0","3">>), difficulty |-> Some(easy)]).q[1]

Q_Dali ==
    Question([category |-> Art, question |-> <<"c","l","o","c","k","s","?">>,
              options |-> <<<<"D","a","l","i">>, <<"P","a","b","l","o">>>>, answer |-> <<"D","a","l","i">>,
              explanation |-> None, difficulty |-> Some(hard)]).q[1]

\* The Question objects of the process.  A list of questions (a bank, the
\* pending queue, the asked list) holds references to them: positions in Heap.
Heap == <<Q_Uranium, Q_Nitrogen, Q_Curie, Q_Dali>>

Deref(ref) == Heap[ref]

\* question_bank is a tuple of Questions (the default is
\* tuple(DEFAULT_QUESTION_BANK)); the second bank holds one object twice.
Banks == { <<1, 2, 3>>, <<4, 1, 1>>, <<>> }

\* guesses typed by a player
Guesses == { <<" ","u","R"," ">>, <<"n","2"," ">>, <<"O","s">> }

\* the categories= and difficulties= arguments of start_game, each None
\* (omitted) or an iterable of strings
Filters ==
    { [categories |-> None, difficulties |-> Some({})],
      [categories |-> Some({<<"S","C","I","E","N","C","E">>}), difficulties |-> None],
      [categories |-> Some({Lower(History), Art}),
       difficulties |-> Some({<<"E","a","s","y">>})],
      [categories |-> Some({}), difficulties |-> Some({medium, hard})] }

\* the random_seed argument of TriviaGame(...)
Seeds == {None, Some(1)}
Rounds == (0 - NegRounds)..MaxRounds

----------------------------------------------------------------------------
(* random.Random, abstracted: a state in 0..RngMod-1, advanced by every draw *)

RngStates == 0..(RngMod - 1)

\* a random source seeded from system entropy whatever the seed
RandomOf_entropy(seed) == RngStates

\* random.Random(seed): seeded deterministically, or from system entropy
\* when the seed is None
RandomOf(seed) == IF seed = None THEN RngStates ELSE {seed[1] % RngMod}

Advance(s) == (s + 1) % RngMod

\* _randbelow(n): a value in 0..n-1 drawn from state s
RandBelow(s, n) == s % n

\* a swap that loses one of the two items: x[i] = x[j] only
Swap_overwrites(x, i, j) == [x EXCEPT ![i] = x[j]]

Swap(x, i, j) == [x EXCEPT ![i] = x[j], ![j] = x[i]]

\* random.Random.shuffle(x): for i in reversed(range(1, len(x))):
\*     j = randbelow(i + 1); x[i], x[j] = x[j], x[i]
\* (positions are 1-based here); returns the list and the advanced state.
RECURSIVE ShuffleFrom(_, _, _)
ShuffleFrom(x, i, s) ==
    IF i < 2 THEN [list |-> x, rng |-> s]
    ELSE ShuffleFrom(Swap(x, i, RandBelow(s, i) + 1), i - 1, Advance(s))

Shuffle(x, s) == ShuffleFrom(x, Len(x), s)

----------------------------------------------------------------------------
(* trivia_game.py: TriviaGame *)

\* a constructor that ignores the seed
__post_init_unseeded__(random_seed) == RngStates

\* __post_init__: self._rng = random.Random(self.random_seed); the set of
\* states the new random source can be in
__post_init__(random_seed) == RandomOf(random_seed)

\* the dataclass after __init__ with the random source in state r
TriviaGame(random_seed, question_bank, r) ==
    [random_seed   |-> random_seed,
     question_bank |-> question_bank,
     _rng          |-> r,
     _questions    |-> <<>>,
     _asked        |-> <<>>,
     _score        |-> 0]

\* {x.lower() for x in arg or []}
Selected(arg) == IF arg = None THEN {} ELSE {Lower(x) : x \in arg[1]}

\* a filter that passes a question matching either criterion
question_filter_either(question, selected_categories, selected_difficulties) ==
    LET category_ok ==
            \/ selected_categories = {}
            \/ Lower(question.category) \in selected_categories
        difficulty_ok ==
            \/ selected_difficulties = {}
            \/ Lower(question.difficulty) \in selected_difficulties
    IN  category_ok \/ difficulty_ok

question_filter(question, selected_categories, selected_difficulties) ==
    LET category_ok ==
            \/ selected_categories = {}
            \/ Lower(question.category) \in selected_categories
        difficulty_ok ==
            \/ selected_difficulties = {}
            \/ Lower(question.difficulty) \in selected_difficulties
    IN  category_ok /\ difficulty_ok

\* filtered = [q for q in self.question_bank if question_filter(q)]
Filtered(question_bank, categories, difficulties) ==
    LET selected_categories == Selected(categories)
        selected_difficulties == Selected(difficulties)
        Pass(ref) == question_filter(Deref(ref), selected_categories,
                                     selected_difficulties)
    IN  SelectSeq(question_bank, Pass)

\* the words of the one argument NotEnoughQuestionsError is raised with
NotEnoughMessage ==
    <<"Not", "enough", "questions", "available", "for", "the", "chosen",
      "filters.">>

\* a start_game that shuffles before it checks the pool
start_game_shuffles_first(self, rounds, categories, difficulties) ==
    LET filtered == Filtered(self.question_bank, categories, difficulties)
        shuffled == Shuffle(filtered, self._rng)
    IN  IF Len(filtered) < rounds
        THEN [self |-> [self EXCEPT !._rng = shuffled.rng],
              exc |-> "NotEnoughQuestionsError",
              message |-> NotEnoughMessage]
        ELSE [self |-> [self EXCEPT !._rng = shuffled.rng,
                                    !._questions = SlicePrefix(shuffled.list, rounds),
                                    !._asked = <<>>,
                                    !._score = 0],
              exc  |-> "", message |-> <<>>]

\* a start_game that wants more questions than rounds
start_game_needs_more(self, rounds, categories, difficulties) ==
    LET filtered == Filtered(self.question_bank, categories, difficulties)
    IN  IF Len(filtered) <= rounds
        THEN [self |-> self, exc |-> "NotEnoughQuestionsError",
              message |-> NotEnoughMessage]
        ELSE LET shuffled == Shuffle(filtered, self._rng)
             IN  [self |-> [self EXCEPT !._rng = shuffled.rng,
                                        !._questions = SlicePrefix(shuffled.list, rounds),
                                        !._asked = <<>>,
                                        !._score = 0],
                  exc  |-> "", message |-> <<>>]

\* a start_game that resets the session before it checks the pool
start_game_resets_first(self, rounds, categories, difficulties) ==
    LET filtered == Filtered(self.question_bank, categories, difficulties)
        reset == [self EXCEPT !._asked = <<>>, !._score = 0]
    IN  IF Len(filtered) < rounds
        THEN [self |-> reset, exc |-> "NotEnoughQuestionsError",
              message |-> NotEnoughMessage]
        ELSE LET shuffled == Shuffle(filtered, self._rng)
             IN  [self |-> [reset EXCEPT !._rng = shuffled.rng,
                                         !._questions = SlicePrefix(shuffled.list, rounds)],
                  exc  |-> "", message |-> <<>>]

\* start_game: the engine afterwards, the exception raised ("" for none) and
\* the message it carries
start_game(self, rounds, categories, difficulties) ==
    LET filtered == Filtered(self.question_bank, categories, difficulties)
    IN  IF Len(filtered) < rounds
        THEN [self |-> self, exc |-> "NotEnoughQuestionsError",
              message |-> NotEnoughMessage]
        ELSE LET shuffled == Shuffle(filtered, self._rng)
             IN  [self |-> [self EXCEPT !._rng = shuffled.rng,
                                        !._questions = SlicePrefix(shuffled.list, rounds),
                                        !._asked = <<>>,
                                        !._score = 0],
                  exc  |-> "", message |-> <<>>]

\* a next_question that serves the last pending question (list.pop())
next_question_pops_last(self) ==
    IF self._questions = <<>>
    THEN [self |-> self, ret |-> None, exc |-> ""]
    ELSE LET question == self._questions[Len(self._questions)]
         IN  [self |-> [self EXCEPT !._questions = SubSeq(self._questions, 1,
                                                         Len(self._questions) - 1),
                                    !._asked = Append(self._asked, question)],
              ret  |-> Some(question),
              exc  |-> ""]

\* a next_question without the emptiness guard: pop(0) on an empty list
next_question_unguarded(self) ==
    IF self._questions = <<>>
    THEN [self |-> self, ret |-> None, exc |-> "IndexError"]
    ELSE LET question == Head(self._questions)
         IN  [self |-> [self EXCEPT !._questions = Tail(self._questions),
                                    !._asked = Append(self._asked, question)],
              ret  |-> Some(question),
              exc  |-> ""]

\* next_question: the engine afterwards and the value returned
next_question(self) ==
    IF self._questions = <<>>
    THEN [self |-> self, ret |-> None, exc |-> ""]
    ELSE LET question == Head(self._questions)
         IN  [self |-> [self EXCEPT !._questions = Tail(self._questions),
                                    !._asked = Append(self._asked, question)],
              ret  |-> Some(question),
              exc  |-> ""]

questions_remaining(self) == Len(self._questions)

total_rounds(self) == Len(self._questions) + Len(self._asked)

\* an answer_question that moves on to the next question after a right guess
answer_question_advances(self, question, guess) ==
    LET is_correct == normalized_answer(question) = Lower(Strip(guess))
    IN  [self |-> IF is_correct
                  THEN [self EXCEPT !._score = self._score + 1,
                                    !._questions = SlicePrefix(@, Len(@) - 1)]
                  ELSE self,
         ret  |-> is_correct]

\* an answer_question that does not trim the guess
answer_question_untrimmed(self, question, guess) ==
    LET is_correct == normalized_answer(question) = Lower(guess)
    IN  [self |-> IF is_correct THEN [self EXCEPT !._score = self._score + 1]
                  ELSE self,
         ret  |-> is_correct]

\* an answer_question that takes a point away for a wrong guess
answer_question_penalises(self, question, guess) ==
    LET is_correct == normalized_answer(question) = Lower(Strip(guess))
    IN  [self |-> IF is_correct THEN [self EXCEPT !._score = self._score + 1]
                  ELSE [self EXCEPT !._score = self._score - 1],
         ret  |-> is_correct]

\* answer_question: the engine afterwards and the value returned
answer_question(self, question, guess) ==
    LET is_correct == normalized_answer(question) = Lower(Strip(guess))
    IN  [self |-> IF is_correct THEN [self EXCEPT !._score = self._score + 1]
                  ELSE self,
         ret  |-> is_correct]

----------------------------------------------------------------------------
(* trivia_game.py: QuestionsBank, whose three lists are class attributes, and
   a TriviaGame constructed over a bank object *)

MaxInstances == 2   \* QuestionsBank() objects created
MaxBankLen == 3     \* questions stored through append and extend

\* Attribute lookup on an instance: no method ever assigns self.bank,
\* self.categories or self.difficulties, so an instance has no attribute of
\* its own and every lookup ends at the list held by the class.
getattr(cls, self, name) == cls[name]

__len__(cls, self) == Len(getattr(cls, self, "bank"))

append(cls, self, question) ==
    [bank         |-> Append(getattr(cls, self, "bank"), question),
     categories   |-> Append(getattr(cls, self, "categories"),
                             Deref(question).category),
     difficulties |-> Append(getattr(cls, self, "difficulties"),
                             Deref(question).difficulty)]

\* An iterable argument: a list can be traversed again and again, an iterator
\* or generator yields its items once and is empty afterwards.
Iterable(items, oneshot) == [items |-> items, oneshot |-> oneshot]

\* one full traversal: what it yields and what is left of the iterable
Traverse(questions) ==
    [yield |-> questions.items,
     rest  |-> IF questions.oneshot THEN Iterable(<<>>, TRUE) ELSE questions]

\* extend traverses its argument three times: list.extend first, then one
\* list comprehension for the categories and one for the difficulties.
extend(cls, self, questions) ==
    LET first  == Traverse(questions)
        second == Traverse(first.rest)
        third  == Traverse(second.rest)
    IN  [bank         |-> getattr(cls, self, "bank") \o first.yield,
         categories   |-> getattr(cls, self, "categories") \o
                            [i \in DOMAIN second.yield |->
                                Deref(second.yield[i]).category],
         difficulties |-> getattr(cls, self, "difficulties") \o
                            [i \in DOMAIN third.yield |->
                                Deref(third.yield[i]).difficulty]]

\* The objects a TriviaGame is given as question_bank: a tuple of questions
\* (the dataclass default is tuple(DEFAULT_QUESTION_BANK)) or an instance of
\* QuestionsBank.
TupleBank(items) == [type |-> "tuple", items |-> items]
BankInstance(self) == [type |-> "QuestionsBank", items |-> <<self>>]

\* iter(obj): a tuple yields its items; QuestionsBank defines neither
\* __iter__ nor __getitem__, so iterating an instance raises TypeError.
__iter__(obj) ==
    IF obj.type = "tuple" THEN [exc |-> "", items |-> obj.items]
    ELSE [exc |-> "TypeError", items |-> <<>>]

\* code points of the characters used, in increasing order
CodePoints == <<" ", "2", "?">> \o UpperCase \o LowerCase

Ord == [c \in Range(CodePoints) |->
            CHOOSE i \in DOMAIN CodePoints : CodePoints[i] = c]

\* a < b for two Python strings
RECURSIVE StrLess(_, _)
StrLess(a, b) ==
    IF b = <<>> THEN FALSE
    ELSE IF a = <<>> THEN TRUE
    ELSE IF Head(a) # Head(b) THEN Ord[Head(a)] < Ord[Head(b)]
    ELSE StrLess(Tail(a), Tail(b))

\* sorted(S) for a set of strings
RECURSIVE sorted(_)
sorted(S) ==
    IF S = {} THEN <<>>
    ELSE LET least == CHOOSE x \in S : \A y \in S \ {x} : StrLess(x, y)
         IN  <<least>> \o sorted(S \ {least})

\* available_categories reads question_bank.categories: a tuple has no such
\* attribute (AttributeError), an instance finds the class attribute.
available_categories(cls, question_bank) ==
    IF question_bank.type = "tuple"
    THEN [exc |-> "AttributeError", ret |-> None]
    ELSE [exc |-> "",
          ret |-> Some(sorted(Range(
                      getattr(cls, question_bank.items[1], "categories"))))]

----------------------------------------------------------------------------
(* The state machine *)

Engines == {1, 2}

NoSession ==
    [started |-> FALSE, rounds |-> 0, queue |-> <<>>, ncalls |-> 0,
     ncorrect |-> 0, drained |-> FALSE]

NoCall == [op |-> "init", e |-> 1, ret |-> None, exc |-> "", filters |-> None]

NoScript == [rounds |-> 0, categories |-> None, difficulties |-> None]

NoFields ==
    [category |-> <<>>, question |-> <<>>, options |-> <<>>, answer |-> <<>>,
     explanation |-> None, difficulty |-> None]

NotBuilt == [done |-> FALSE, exc |-> "", q |-> None]

\* st.session_state.trivia_session is None: no TriviaSession constructed
NoTriviaSession ==
    [constructed |-> FALSE, history |-> <<>>, current_question |-> None,
     current_selection |-> None, question_number |-> 0, answered |-> FALSE,
     was_correct |-> None]

\* no call of generate_question made: its difficulty argument, whether the
\* Ollama runtime answers, and the reply (content "" for empty or blank,
\* "text" for text without a {...} span, "object" for text with one; whether
\* that span decodes as JSON; whether the decoded object has every required
\* key)
NoReply ==
    [difficulty |-> medium, available |-> TRUE, content |-> "",
     decodes |-> FALSE, complete |-> FALSE]

\* the class body of QuestionsBank: three lists created once, with the class
EmptyClass == [bank |-> <<>>, categories |-> <<>>, difficulties |-> <<>>]

\* no TriviaGame constructed over a bank object yet; once constructed,
\* question_bank is that object and session holds the other dataclass fields
NoHost ==
    [constructed |-> FALSE, question_bank |-> TupleBank(<<>>),
     session |-> TriviaGame(Some(0), <<>>, 0)]

\* Engine 1 is constructed with any seed and bank.  Engine 2 takes no step in
\* this specification: it is constructed with seed 0 on the same bank.
Init ==
    /\ \E seed \in Seeds, bank \in Banks :
         \E r \in __post_init__(seed), r0 \in __post_init__(Some(0)) :
            game = [e \in Engines |->
                      IF e = 1 THEN TriviaGame(seed, bank, r)
                      ELSE TriviaGame(Some(0), bank, r0)]
    /\ hist = [e \in Engines |-> NoSession]
    /\ call = NoCall
    /\ script = NoScript
    /\ raw = NoFields
    /\ built = NotBuilt
    /\ restored = NotBuilt
    /\ reply = NoReply
    /\ QuestionsBank = EmptyClass
    /\ instances = <<>>
    /\ host = NoHost
    /\ current = None
    /\ session = NoTriviaSession

StartGame(e, rounds, categories, difficulties) ==
    LET r == start_game(game[e], rounds, categories, difficulties)
    IN  /\ game' = [game EXCEPT ![e] = r.self]
        /\ hist' = IF r.exc = ""
                   THEN [hist EXCEPT ![e] =
                            [started |-> TRUE, rounds |-> rounds,
                             queue |-> r.self._questions, ncalls |-> 0,
                             ncorrect |-> 0, drained |-> FALSE]]
                   ELSE hist
        /\ call' = [op |-> "start_game", e |-> e, ret |-> None, exc |-> r.exc,
                    filters |-> IF r.exc = ""
                                THEN Some(<<categories, difficulties>>)
                                ELSE None]
        /\ UNCHANGED <<script, raw, built, restored, reply, QuestionsBank, instances, host, current,
                       session>>

NextQuestion(e) ==
    LET r == next_question(game[e])
    IN  /\ hist[e].ncalls < MaxNext
        /\ game' = [game EXCEPT ![e] = r.self]
        /\ hist' = [hist EXCEPT ![e].ncalls = @ + 1,
                                ![e].drained = @ \/ r.ret = None]
        /\ call' = [op |-> "next_question", e |-> e, ret |-> r.ret, exc |-> r.exc,
                    filters |-> None]
        /\ UNCHANGED <<script, raw, built, restored, reply, QuestionsBank, instances, host, current,
                       session>>

AnswerQuestion(e, question, guess) ==
    LET r == answer_question(game[e], Deref(question), guess)
    IN  /\ game[e]._score < MaxScore
        /\ game' = [game EXCEPT ![e] = r.self]
        /\ hist' = [hist EXCEPT ![e].ncorrect = IF r.ret THEN @ + 1 ELSE @]
        /\ call' = [op |-> "answer_question", e |-> e, ret |-> Some(r.ret),
                    exc |-> "", filters |-> None]
        /\ UNCHANGED <<script, raw, built, restored, reply, QuestionsBank, instances, host, current,
                       session>>

Next ==
    \/ \E rounds \in Rounds, f \in Filters :
            StartGame(1, rounds, f.categories, f.difficulties)
    \/ NextQuestion(1)
    \/ \E question \in Range(game[1].question_bank), guess \in Guesses :
            AnswerQuestion(1, question, guess)

Spec == Init /\ [][Next]_vars

----------------------------------------------------------------------------
(* Two engines constructed alike, each started once with the same arguments
   and then drained *)

MaxSeed == 2

DetSeeds == {Some(n) : n \in 0..MaxSeed}

InitDet ==
    /\ \E seed \in DetSeeds, bank \in Banks :
         \E r1 \in __post_init__(seed), r2 \in __post_init__(seed) :
            game = [e \in Engines |->
                      TriviaGame(seed, bank, IF e = 1 THEN r1 ELSE r2)]
    /\ hist = [e \in Engines |-> NoSession]
    /\ call = NoCall
    /\ \E rounds \in Rounds, f \in Filters :
            script = [rounds |-> rounds, categories |-> f.categories,
                      difficulties |-> f.difficulties]
    /\ raw = NoFields
    /\ built = NotBuilt
    /\ restored = NotBuilt
    /\ reply = NoReply
    /\ QuestionsBank = EmptyClass
    /\ instances = <<>>
    /\ host = NoHost
    /\ current = None
    /\ session = NoTriviaSession

DetStart(e) ==
    /\ ~hist[e].started
    /\ StartGame(e, script.rounds, script.categories, script.difficulties)

DetDrain(e) ==
    /\ hist[e].started
    /\ ~hist[e].drained
    /\ NextQuestion(e)

NextDet == \E e \in Engines : DetStart(e) \/ DetDrain(e)

SpecDet == InitDet /\ [][NextDet]_vars

----------------------------------------------------------------------------
(* Two engines constructed alike and started in turn, again and again, with
   the same arguments *)

Restart(e) ==
    /\ IF e = 1 THEN call.op = "init" \/ call.e = 2
                ELSE call.op # "init" /\ call.e = 1
    /\ StartGame(e, script.rounds, script.categories, script.difficulties)

NextRestart == \E e \in Engines : Restart(e)

SpecRestart == InitDet /\ [][NextRestart]_vars

----------------------------------------------------------------------------
(* One engine on which start_game is called again and again, with any
   arguments, some calls failing and some succeeding *)

NextStarts ==
    \E rounds \in Rounds, f \in Filters :
        StartGame(1, rounds, f.categories, f.difficulties)

SpecStarts == Init /\ [][NextStarts]_vars

----------------------------------------------------------------------------
(* Question(...) applied to field values drawn from small sets *)

CategoryInputs == { Science, <<" ","S","c","i","e","n","c","e"," ">>, Lower(Science), <<"Q","u","i","z">>, <<>> }
PromptInputs == { <<"q","?">>, <<" ">>, <<>> }
OptionInputs ==
    { <<>>, <<<<"A">>>>, <<<<"A">>, <<"b">>>>, <<<<" ","A"," ">>, <<" ">>>>,
      <<<<" ","A"," ">>, <<"b">>, <<"c">>>>, <<<<"A">>, <<>> >>,
      <<<<"A">>, <<" ","A">>>> }
AnswerInputs == { <<"A">>, <<"a">>, <<" ","A"," ">>, <<"c">>, <<>>, <<" ">> }
DifficultyInputs ==
    { None, Some(hard), Some(<<"E","A","S","Y">>), Some(<<" ","M","e","d","i","u","m">>), Some(<<"t","o","u","g","h">>),
      Some(<<>>), Some(<<" ">>) }

InitQ ==
    /\ game = [e \in Engines |-> TriviaGame(None, <<1, 2, 3>>, 0)]
    /\ hist = [e \in Engines |-> NoSession]
    /\ call = NoCall
    /\ script = NoScript
    /\ raw \in [category : CategoryInputs, question : PromptInputs,
                options : OptionInputs, answer : AnswerInputs,
                explanation : {None, Some(<<" ">>)},
                difficulty : DifficultyInputs]
    /\ built = NotBuilt
    /\ restored = NotBuilt
    /\ reply = NoReply
    /\ QuestionsBank = EmptyClass
    /\ instances = <<>>
    /\ host = NoHost
    /\ current = None
    /\ session = NoTriviaSession

Construct ==
    /\ ~built.done
    /\ LET r == Question(raw)
       IN  built' = [done |-> TRUE, exc |-> r.exc, q |-> r.q]
    /\ UNCHANGED <<game, hist, call, script, raw, restored, reply, QuestionsBank, instances, host, current,
                   session>>

\* Question.from_dict(q.to_dict()) on the Question just constructed
RoundTrip ==
    /\ built.done
    /\ built.q # None
    /\ ~restored.done
    /\ LET r == from_dict(to_dict(built.q[1]))
       IN  restored' = [done |-> TRUE, exc |-> r.exc, q |-> r.q]
    /\ UNCHANGED <<game, hist, call, script, raw, built, reply, QuestionsBank,
                   instances, host, current, session>>

NextQ == Construct \/ RoundTrip

SpecQ == InitQ /\ [][NextQ]_vars

----------------------------------------------------------------------------
(* QuestionsBank objects created, filled through append and extend, and a
   TriviaGame constructed over a tuple or over one of them *)

BankQuestions == {1, 3}

Iterables ==
    { Iterable(items, oneshot) :
        items \in {<<>>, <<1>>, <<3, 1>>}, oneshot \in BOOLEAN }

BankObjects ==
    {TupleBank(b) : b \in Banks} \cup {BankInstance(i) : i \in DOMAIN instances}

InitBank ==
    /\ game = [e \in Engines |-> TriviaGame(None, <<1, 2, 3>>, 0)]
    /\ hist = [e \in Engines |-> NoSession]
    /\ call = NoCall
    /\ script = NoScript
    /\ raw = NoFields
    /\ built = NotBuilt
    /\ restored = NotBuilt
    /\ reply = NoReply
    /\ QuestionsBank = EmptyClass
    /\ instances = <<>>
    /\ host = NoHost
    /\ current = None
    /\ session = NoTriviaSession

\* QuestionsBank(): the class has no __init__, the new object no attribute
NewBank ==
    /\ Len(instances) < MaxInstances
    /\ instances' = Append(instances, <<>>)
    /\ call' = [op |-> "QuestionsBank", e |-> Len(instances) + 1,
                ret |-> Some(__len__(QuestionsBank, Len(instances) + 1)),
                exc |-> "", filters |-> None]
    /\ UNCHANGED <<game, hist, script, raw, built, restored, reply,
                   QuestionsBank, host, current, session>>

BankAppend(self, question) ==
    /\ __len__(QuestionsBank, self) < MaxBankLen
    /\ QuestionsBank' = append(QuestionsBank, self, question)
    /\ instances' = [instances EXCEPT ![self] = Append(@, question)]
    /\ call' = [op |-> "append", e |-> self, ret |-> None, exc |-> "",
                filters |-> None]
    /\ UNCHANGED <<game, hist, script, raw, built, restored, reply, host,
                   current, session>>

BankExtend(self, questions) ==
    /\ __len__(QuestionsBank, self) + Len(questions.items) <= MaxBankLen
    /\ QuestionsBank' = extend(QuestionsBank, self, questions)
    /\ instances' = [instances EXCEPT ![self] = @ \o questions.items]
    /\ call' = [op |-> "extend", e |-> self, ret |-> None, exc |-> "",
                filters |-> None]
    /\ UNCHANGED <<game, hist, script, raw, built, restored, reply, host,
                   current, session>>

\* TriviaGame(random_seed=0, question_bank=obj)
NewGame(obj) ==
    /\ ~host.constructed
    /\ \E r \in __post_init__(Some(0)) :
          host' = [constructed |-> TRUE, question_bank |-> obj,
                   session |-> TriviaGame(Some(0), __iter__(obj).items, r)]
    /\ call' = [op |-> "TriviaGame", e |-> 1, ret |-> None, exc |-> "",
                filters |-> None]
    /\ UNCHANGED <<game, hist, script, raw, built, restored, reply,
                   QuestionsBank, instances, current, session>>

AvailableCategories ==
    /\ host.constructed
    /\ LET r == available_categories(QuestionsBank, host.question_bank)
       IN  call' = [op |-> "available_categories", e |-> 1, ret |-> r.ret,
                    exc |-> r.exc, filters |-> None]
    /\ UNCHANGED <<game, hist, script, raw, built, restored, reply,
                   QuestionsBank, instances, host, current, session>>

\* start_game on that engine: the selection iterates question_bank first
HostStartGame(rounds) ==
    /\ host.constructed
    /\ LET it == __iter__(host.question_bank)
           r  == start_game(host.session, rounds, None, None)
       IN  IF it.exc # ""
           THEN /\ call' = [op |-> "start_game", e |-> 1, ret |-> None,
                            exc |-> it.exc, filters |-> None]
                /\ host' = host
           ELSE /\ call' = [op |-> "start_game", e |-> 1, ret |-> None,
                            exc |-> r.exc, filters |-> None]
                /\ host' = [host EXCEPT !.session = r.self]
    /\ UNCHANGED <<game, hist, script, raw, built, restored, reply,
                   QuestionsBank, instances, current, session>>

NextBank ==
    \/ NewBank
    \/ \E self \in DOMAIN instances, question \in BankQuestions :
            BankAppend(self, question)
    \/ \E self \in DOMAIN instances, questions \in Iterables :
            BankExtend(self, questions)
    \/ \E obj \in BankObjects : NewGame(obj)
    \/ AvailableCategories
    \/ \E rounds \in 0..1 : HostStartGame(rounds)

SpecBank == InitBank /\ [][NextBank]_vars

----------------------------------------------------------------------------
(* One session played through: every question served is answered once, with
   its own answer typed in another case and padded with blanks *)

\* the upper-case letter of every lower-case letter
UpperTable ==
    [c \in Range(LowerCase) |->
        UpperCase[CHOOSE i \in DOMAIN LowerCase : LowerCase[i] = c]]

UpperChar(c) == IF c \in DOMAIN UpperTable THEN UpperTable[c] ELSE c

\* str.upper()
Upper(s) == [i \in 1..Len(s) |-> UpperChar(s[i])]

\* ways a player types the answer string s
Typed(s) ==
    { <<" ">> \o Upper(s) \o <<" ">>, Lower(s) \o <<" ", " ">>, <<" ">> \o s }

InitPlay ==
    /\ \E seed \in Seeds, bank \in Banks :
         \E r \in __post_init__(seed), r0 \in __post_init__(Some(0)) :
            game = [e \in Engines |->
                      IF e = 1 THEN TriviaGame(seed, bank, r)
                      ELSE TriviaGame(Some(0), bank, r0)]
    /\ hist = [e \in Engines |-> NoSession]
    /\ call = NoCall
    /\ \E rounds \in Rounds, f \in Filters :
            script = [rounds |-> rounds, categories |-> f.categories,
                      difficulties |-> f.difficulties]
    /\ raw = NoFields
    /\ built = NotBuilt
    /\ restored = NotBuilt
    /\ reply = NoReply
    /\ QuestionsBank = EmptyClass
    /\ instances = <<>>
    /\ host = NoHost
    /\ current = None
    /\ session = NoTriviaSession

PlayStart ==
    /\ ~hist[1].started
    /\ StartGame(1, script.rounds, script.categories, script.difficulties)

\* next_question(), called when no served question awaits its answer; the
\* player keeps what it returns
PlayNext ==
    LET r == next_question(game[1])
    IN  /\ hist[1].started
        /\ ~hist[1].drained
        /\ current = None
        /\ hist[1].ncalls < MaxNext
        /\ game' = [game EXCEPT ![1] = r.self]
        /\ hist' = [hist EXCEPT ![1].ncalls = @ + 1,
                                ![1].drained = @ \/ r.ret = None]
        /\ call' = [op |-> "next_question", e |-> 1, ret |-> r.ret,
                    exc |-> r.exc, filters |-> None]
        /\ current' = r.ret
        /\ UNCHANGED <<script, raw, built, restored, reply, QuestionsBank,
                       instances, host, session>>

\* answer_question(question, guess) for the question just served
PlayAnswer(guess) ==
    LET r == answer_question(game[1], Deref(current[1]), guess)
    IN  /\ current # None
        /\ game' = [game EXCEPT ![1] = r.self]
        /\ hist' = [hist EXCEPT ![1].ncorrect = IF r.ret THEN @ + 1 ELSE @]
        /\ call' = [op |-> "answer_question", e |-> 1, ret |-> Some(r.ret),
                    exc |-> "", filters |-> None]
        /\ current' = None
        /\ UNCHANGED <<script, raw, built, restored, reply, QuestionsBank,
                       instances, host, session>>

NextPlay ==
    \/ PlayStart
    \/ PlayNext
    \/ \E q \in Range(game[1].question_bank) :
         \E guess \in Typed(Deref(q).answer) :
            /\ current = Some(q)
            /\ PlayAnswer(guess)

SpecPlay == InitPlay /\ [][NextPlay]_vars

----------------------------------------------------------------------------
(* streamlit_trivia.py: the TriviaSession the app keeps around one engine *)

\* TriviaSession(game=..., rounds=..., categories=..., difficulties=...)
TriviaSession ==
    [constructed |-> TRUE, history |-> <<>>, current_question |-> None,
     current_selection |-> None, question_number |-> 0, answered |-> FALSE,
     was_correct |-> None]

\* TriviaSession.next_question: the session and its engine afterwards
TriviaSession_next_question(self, g) ==
    LET r == next_question(g)
        question == r.ret
    IN  [self |-> [self EXCEPT
                      !.current_question = question,
                      !.question_number = IF question # None
                                          THEN Len(self.history) + 1
                                          ELSE Len(self.history),
                      !.current_selection = None,
                      !.answered = FALSE,
                      !.was_correct = None],
         game |-> r.self]

\* a submit_answer that scores every submission
submit_answer_rescoring(self, g, guess) ==
    IF self.current_question = None
    THEN [self |-> self, game |-> g, ret |-> FALSE]
    ELSE LET r == answer_question(g, Deref(self.current_question[1]), guess)
         IN  [self |-> [self EXCEPT
                           !.answered = TRUE,
                           !.current_selection = Some(guess),
                           !.was_correct = Some(r.ret),
                           !.history = Append(@,
                               [question |-> self.current_question[1],
                                selected |-> guess, correct |-> r.ret])],
              game |-> r.self,
              ret  |-> r.ret]

\* TriviaSession.submit_answer: the session and its engine afterwards and the
\* value returned (bool(None) is False)
submit_answer(self, g, guess) ==
    IF self.current_question = None
    THEN [self |-> self, game |-> g, ret |-> FALSE]
    ELSE IF self.answered
    THEN [self |-> self, game |-> g,
          ret |-> IF self.was_correct = None THEN FALSE
                  ELSE self.was_correct[1]]
    ELSE LET r == answer_question(g, Deref(self.current_question[1]), guess)
         IN  [self |-> [self EXCEPT
                           !.answered = TRUE,
                           !.current_selection = Some(guess),
                           !.was_correct = Some(r.ret),
                           !.history = Append(@,
                               [question |-> self.current_question[1],
                                selected |-> guess, correct |-> r.ret])],
              game |-> r.self,
              ret  |-> r.ret]

\* _start_new_game on the engine just constructed: start_game, and on
\* success a TriviaSession around the engine and its first next_question
StartNewGame ==
    LET r == start_game(game[1], script.rounds, script.categories,
                        script.difficulties)
        n == TriviaSession_next_question(TriviaSession, r.self)
    IN  /\ ~session.constructed
        /\ IF r.exc # ""
           THEN /\ UNCHANGED <<game, hist, session>>
                /\ call' = [op |-> "start_game", e |-> 1, ret |-> None,
                            exc |-> r.exc, filters |-> None]
           ELSE /\ game' = [game EXCEPT ![1] = n.game]
                /\ hist' = [hist EXCEPT ![1] =
                               [started |-> TRUE, rounds |-> script.rounds,
                                queue |-> r.self._questions, ncalls |-> 1,
                                ncorrect |-> 0,
                                drained |-> n.self.current_question = None]]
                /\ session' = n.self
                /\ call' = [op |-> "next_question", e |-> 1,
                            ret |-> n.self.current_question, exc |-> "",
                            filters |-> None]
        /\ UNCHANGED <<script, raw, built, restored, reply, QuestionsBank,
                       instances, host, current>>

SessionNext ==
    LET n == TriviaSession_next_question(session, game[1])
    IN  /\ session.constructed
        /\ hist[1].ncalls < MaxNext
        /\ game' = [game EXCEPT ![1] = n.game]
        /\ hist' = [hist EXCEPT ![1].ncalls = @ + 1,
                                ![1].drained = @ \/ n.self.current_question = None]
        /\ session' = n.self
        /\ call' = [op |-> "next_question", e |-> 1,
                    ret |-> n.self.current_question, exc |-> "",
                    filters |-> None]
        /\ UNCHANGED <<script, raw, built, restored, reply, QuestionsBank,
                       instances, host, current>>

SubmitAnswer(guess) ==
    LET r == submit_answer(session, game[1], guess)
    IN  /\ session.constructed
        /\ game' = [game EXCEPT ![1] = r.game]
        /\ hist' = [hist EXCEPT ![1].ncorrect =
                        @ + (r.game._score - game[1]._score)]
        /\ session' = r.self
        /\ call' = [op |-> "submit_answer", e |-> 1, ret |-> Some(r.ret),
                    exc |-> "", filters |-> None]
        /\ UNCHANGED <<script, raw, built, restored, reply, QuestionsBank,
                       instances, host, current>>

NextSession ==
    \/ StartNewGame
    \/ SessionNext
    \/ \E guess \in Guesses : SubmitAnswer(guess)

SpecSession == InitPlay /\ [][NextSession]_vars

----------------------------------------------------------------------------
(* _question.py: QuestionGenerator.generate_question on the replies of the
   model *)

\* _extract_json_blob: the text from the first "{" to the last "}", or
\* InvalidQuestionFormat when there is no such span
_extract_json_blob(content) ==
    IF content = "object" THEN [exc |-> "", blob |-> TRUE]
    ELSE [exc |-> "InvalidQuestionFormat", blob |-> FALSE]

\* the dict json.loads returns for a reply: the keys the model wrote
Payload(fields, complete) ==
    LET keys == (IF complete THEN RequiredKeys ELSE RequiredKeys \ {"answer"})
                \cup {"explanation"}
                \cup (IF fields.difficulty # None THEN {"difficulty"} ELSE {})
    IN  [k \in keys |->
            IF k = "difficulty" THEN fields.difficulty[1] ELSE fields[k]]

\* Question.from_json: json.loads, then from_dict (text that starts with "{"
\* decodes to a mapping or not at all)
from_json(decodes, fields, complete) ==
    IF ~decodes THEN [exc |-> "JSONDecodeError", q |-> None]
    ELSE from_dict(Payload(fields, complete))

\* the two except clauses around the parsing: json.JSONDecodeError, and
\* (ValueError, TypeError, KeyError), are re-raised as InvalidQuestionFormat;
\* any other exception passes
Reraised(exc) ==
    IF exc \in {"JSONDecodeError", "ValueError", "TypeError", "KeyError"}
    THEN "InvalidQuestionFormat"
    ELSE exc

\* generate_question(difficulty=...) when ollama.chat answers with the
\* reply, or raises ResponseError
generate_question(difficulty, r, fields) ==
    IF Lower(Strip(difficulty)) \notin Range(VALID_DIFFICULTIES)
    THEN [exc |-> "GameError", q |-> None]
    ELSE IF ~r.available
    THEN [exc |-> "OllamaNotAvailable", q |-> None]
    ELSE IF r.content = ""
    THEN [exc |-> "InvalidQuestionFormat", q |-> None]
    ELSE LET payload_text == _extract_json_blob(r.content)
             question == from_json(r.decodes, fields, r.complete)
         IN  IF payload_text.exc # ""
             THEN [exc |-> Reraised(payload_text.exc), q |-> None]
             ELSE IF question.exc # ""
             THEN [exc |-> Reraised(question.exc), q |-> None]
             ELSE question

DifficultyArgs == { medium, <<" ","H","a","r","d">>, <<"t","o","u","g","h">> }

Replies ==
    [difficulty : DifficultyArgs, available : BOOLEAN,
     content : {"", "text", "object"}, decodes : BOOLEAN, complete : BOOLEAN]

\* the field values the model writes into its JSON object
ReplyFields ==
    [category : {Science, <<"Q","u","i","z">>}, question : {<<"q","?">>},
     options : {<<<<"A">>, <<"b">>>>, <<<<"A">>>>},
     answer : {<<"A">>, <<"c">>}, explanation : {None},
     difficulty : {None, Some(hard), Some(<<"t","o","u","g","h">>)}]

InitGen ==
    /\ game = [e \in Engines |-> TriviaGame(None, <<1, 2, 3>>, 0)]
    /\ hist = [e \in Engines |-> NoSession]
    /\ call = NoCall
    /\ script = NoScript
    /\ raw \in ReplyFields
    /\ built = NotBuilt
    /\ restored = NotBuilt
    /\ reply \in Replies
    /\ QuestionsBank = EmptyClass
    /\ instances = <<>>
    /\ host = NoHost
    /\ current = None
    /\ session = NoTriviaSession

Generate ==
    /\ ~built.done
    /\ LET r == generate_question(reply.difficulty, reply, raw)
       IN  built' = [done |-> TRUE, exc |-> r.exc, q |-> r.q]
    /\ UNCHANGED <<game, hist, call, script, raw, restored, reply, QuestionsBank,
                   instances, host, current, session>>

NextGen == Generate

SpecGen == InitGen /\ [][NextGen]_vars

----------------------------------------------------------------------------
(* Properties *)

\* the argument as the caller's set of strings (omitted counts as empty)
GivenSet(arg) == IF arg = None THEN {} ELSE arg[1]

\* x is in S when letter case is ignored
CaseInsensitiveIn(x, S) == \E y \in S : Lower(y) = Lower(x)

\* the questions of a bank that a pair of filters admits, in bank order
Admitted(question_bank, categories, difficulties) ==
    LET Ok(ref) ==
            /\ GivenSet(categories) = {}
               \/ CaseInsensitiveIn(Deref(ref).category, GivenSet(categories))
            /\ GivenSet(difficulties) = {}
               \/ CaseInsensitiveIn(Deref(ref).difficulty, GivenSet(difficulties))
    IN  SelectSeq(question_bank, Ok)

\* C1: once start_game(rounds=R) has succeeded, len(pending) + len(asked),
\* which is what total_rounds() returns, equals R in every later state.
C1_RoundsPartition ==
    hist[1].started =>
        /\ Len(game[1]._questions) + Len(game[1]._asked) = hist[1].rounds
        /\ total_rounds(game[1]) = hist[1].rounds

\* C2: in every engine state, start_game against a filtered pool smaller than
\* rounds raises NotEnoughQuestionsError and keeps pending, asked and score.
C2_FailedStartKeepsSession ==
    \A rounds \in Rounds, f \in Filters :
        Len(Admitted(game[1].question_bank, f.categories, f.difficulties)) < rounds
        => LET r == start_game(game[1], rounds, f.categories, f.difficulties)
           IN  /\ r.exc = "NotEnoughQuestionsError"
               /\ r.self._questions = game[1]._questions
               /\ r.self._asked = game[1]._asked
               /\ r.self._score = game[1]._score

\* a start_game has just failed in a session with questions served, questions
\* pending and points scored
C2_Witness ==
    /\ call.op = "start_game"
    /\ call.exc = "NotEnoughQuestionsError"
    /\ game[1]._asked # <<>>
    /\ game[1]._questions # <<>>
    /\ game[1]._score > 0

\* C3: after start_game(rounds=R) the first R calls of next_question return a
\* question and every later call returns None; questions_remaining() is
\* positive before the R-th call and 0 from the R-th call on.
C3_Exhaustion ==
    hist[1].started =>
        /\ hist[1].ncalls < hist[1].rounds => questions_remaining(game[1]) > 0
        /\ hist[1].ncalls >= hist[1].rounds => questions_remaining(game[1]) = 0
        /\ call.op = "next_question" =>
              (call.ret # None <=> hist[1].ncalls <= hist[1].rounds)

\* C4: two engines constructed with the same seed and bank, each started once
\* with the same rounds and filters, serve the same questions in the same
\* order, at every point of the drain and when both are drained.
C4_Determinism ==
    /\ \A i \in DOMAIN game[1]._asked \cap DOMAIN game[2]._asked :
            game[1]._asked[i] = game[2]._asked[i]
    /\ hist[1].drained /\ hist[2].drained
       => game[1]._asked = game[2]._asked

\* both engines are drained after serving at least two questions
C4_Witness ==
    /\ hist[1].drained
    /\ hist[2].drained
    /\ Len(game[1]._asked) >= 2

\* C5: answer_question returns true exactly when the guess, trimmed and
\* lowercased, equals the answer, trimmed and lowercased; the score grows by
\* 1 on true and by 0 on false, so it counts the correct guesses.
C5_Scoring ==
    /\ \A q \in Range(game[1].question_bank), guess \in Guesses :
         LET r == answer_question(game[1], Deref(q), guess)
             matches == Lower(Strip(guess)) = Lower(Strip(Deref(q).answer))
         IN  /\ r.ret = matches
             /\ r.self._score = game[1]._score + (IF matches THEN 1 ELSE 0)
    /\ game[1]._score = hist[1].ncorrect

\* a second correct guess has just been scored
C5_Witness ==
    /\ call.op = "answer_question"
    /\ call.ret = Some(TRUE)
    /\ game[1]._score = 2

\* C6: start_game selects exactly the questions whose category and difficulty
\* are, case-insensitively, in the given sets (an omitted or empty set
\* restricts nothing), and every question it makes pending is one of them.
C6_FilterRespected ==
    /\ \A f \in Filters :
         Filtered(game[1].question_bank, f.categories, f.difficulties)
            = Admitted(game[1].question_bank, f.categories, f.difficulties)
    /\ call.op = "start_game" /\ call.exc = ""
       => \A i \in DOMAIN game[1]._questions :
            LET q == Deref(game[1]._questions[i])
                categories == GivenSet(call.filters[1][1])
                difficulties == GivenSet(call.filters[1][2])
            IN  /\ categories # {} => CaseInsensitiveIn(q.category, categories)
                /\ difficulties # {} => CaseInsensitiveIn(q.difficulty, difficulties)

\* a start_game with both filters set has made a question pending
C6_Witness ==
    /\ call.op = "start_game"
    /\ call.exc = ""
    /\ GivenSet(call.filters[1][1]) # {}
    /\ GivenSet(call.filters[1][2]) # {}
    /\ game[1]._questions # <<>>

\* C7: a successful start_game(rounds=R) leaves asked empty, score 0 and
\* questions_remaining() equal to R, whatever the engine state before.
C7_FreshSession ==
    call.op = "start_game" /\ call.exc = ""
    => /\ game[1]._asked = <<>>
       /\ game[1]._score = 0
       /\ questions_remaining(game[1]) = hist[1].rounds

\* C8: next_question on a non-empty pending returns its head, removes it and
\* appends it to asked; asked ++ pending is always the queue start_game built.
C8_FifoOrder ==
    /\ hist[1].started
       => game[1]._asked \o game[1]._questions = hist[1].queue
    /\ game[1]._questions # <<>>
       => LET r == next_question(game[1])
          IN  /\ r.ret = Some(game[1]._questions[1])
              /\ r.exc = ""
              /\ r.self._asked = game[1]._asked \o <<game[1]._questions[1]>>
              /\ <<game[1]._questions[1]>> \o r.self._questions
                    = game[1]._questions

\* the second question of a session has just been served and more are pending
C8_Witness ==
    /\ call.op = "next_question"
    /\ call.ret # None
    /\ Len(game[1]._asked) >= 2
    /\ game[1]._questions # <<>>

\* C9: with pending empty, next_question returns None, raises nothing and
\* changes nothing of the engine, however often it is called.
C9_EmptyPendingIsNoQuestion ==
    /\ game[1]._questions = <<>>
       => next_question(game[1]) = [self |-> game[1], ret |-> None, exc |-> ""]
    /\ call.op = "next_question" /\ call.ret = None
       => call.exc = "" /\ game[1]._questions = <<>>

\* next_question has returned None at least twice in an exhausted session
C9_Witness ==
    /\ call.op = "next_question"
    /\ call.ret = None
    /\ hist[1].started
    /\ game[1]._asked # <<>>
    /\ hist[1].ncalls >= Len(hist[1].queue) + 2

\* never started: next_question has returned None at least twice
C9_WitnessUnstarted ==
    /\ call.op = "next_question"
    /\ call.ret = None
    /\ ~hist[1].started
    /\ hist[1].ncalls >= 2

\* the constraints on the fields of a Question instance
WellFormed(q) ==
    /\ q.category \in Range(CATEGORIES)
    /\ q.question # <<>>
    /\ Len(q.options) >= 2
    /\ \A i \in DOMAIN q.options : q.options[i] # <<>>
    /\ q.answer # <<>>
    /\ q.answer \in Range(q.options)
    /\ q.difficulty \in Range(VALID_DIFFICULTIES)

\* a defect of the given field values other than the difficulty, every string
\* trimmed first
FieldDefect(fields) ==
    \/ Strip(fields.category) \notin Range(CATEGORIES)
    \/ Strip(fields.question) = <<>>
    \/ Len(fields.options) < 2
    \/ \E i \in DOMAIN fields.options : Strip(fields.options[i]) = <<>>
    \/ Strip(fields.answer) = <<>>
    \/ Strip(fields.answer) \notin {Strip(fields.options[i]) : i \in DOMAIN fields.options}

\* the given difficulty, trimmed and lowercased, is none of easy, medium, hard
DifficultyOutside(fields) ==
    /\ fields.difficulty # None
    /\ Lower(Strip(fields.difficulty[1])) \notin Range(VALID_DIFFICULTIES)

\* C10 as stated: construction fails whenever a field has a defect or the
\* difficulty is outside {easy, medium, hard}, and every instance that exists
\* meets all the constraints.
C10_DefectsRejected ==
    built.done =>
        /\ FieldDefect(raw) \/ DifficultyOutside(raw) => built.q = None
        /\ built.q # None => WellFormed(built.q[1])

\* C10 amended: as C10, except that an empty difficulty is no defect: it is
\* accepted and stored as medium.
C10_DefectsRejectedEmptyDifficultyAccepted ==
    built.done =>
        /\ \/ FieldDefect(raw)
           \/ DifficultyOutside(raw) /\ Strip(raw.difficulty[1]) # <<>>
           => built.q = None /\ built.exc = "GameError"
        /\ built.q # None => WellFormed(built.q[1])
        /\ /\ ~FieldDefect(raw)
           /\ raw.difficulty # None
           /\ Strip(raw.difficulty[1]) = <<>>
           => built.q # None /\ built.q[1].difficulty = medium

\* construction has failed on fields whose only defect is an answer that is
\* none of the options
C10_Witness ==
    /\ built.done
    /\ built.q = None
    /\ Strip(raw.category) \in Range(CATEGORIES)
    /\ Strip(raw.question) # <<>>
    /\ Len(raw.options) >= 2
    /\ \A i \in DOMAIN raw.options : Strip(raw.options[i]) # <<>>
    /\ Strip(raw.answer) # <<>>
    /\ ~DifficultyOutside(raw)
    /\ Strip(raw.answer) \notin {Strip(raw.options[i]) : i \in DOMAIN raw.options}

----------------------------------------------------------------------------
(* Options of a Question *)

Trimmed(seq) == [i \in DOMAIN seq |-> Strip(seq[i])]

PairwiseDistinct(seq) ==
    \A i, j \in DOMAIN seq : i # j => seq[i] # seq[j]

\* C11: the options of every constructed Question are pairwise distinct, and
\* constructing a Question whose options hold the same string twice (after
\* trimming) fails.
C11_OptionsDistinct ==
    built.done =>
        /\ built.q # None => PairwiseDistinct(built.q[1].options)
        /\ ~PairwiseDistinct(Trimmed(raw.options)) => built.q = None

----------------------------------------------------------------------------
(* Serialisation of a Question *)

\* C12: for every valid Question q, Question.from_dict(q.to_dict()) succeeds
\* and yields a Question equal to q in every field.
C12_RoundTrip ==
    restored.done => restored.exc = "" /\ restored.q = built.q

C12_Witness ==
    /\ restored.done
    /\ restored.q # None
    /\ restored.q[1].difficulty = hard
    /\ restored.q[1].explanation # None
    /\ Len(restored.q[1].options) = 3

----------------------------------------------------------------------------
(* Question banks *)

IsPrefix(a, b) == Len(a) <= Len(b) /\ SubSeq(b, 1, Len(a)) = a

\* C13: every QuestionsBank owns its own collection: a bank holds exactly the
\* questions added through it (so an append or extend on one bank changes no
\* other bank), and a newly created bank is empty.
C13_OwnCollection ==
    /\ \A self \in DOMAIN instances :
          /\ getattr(QuestionsBank, self, "bank") = instances[self]
          /\ __len__(QuestionsBank, self) = Len(instances[self])
    /\ call.op = "QuestionsBank" => call.ret = Some(0)

\* C14: after any sequence of append and extend, with any kind of iterable,
\* the bank only grows at its end and the recorded categories and
\* difficulties are those of the stored questions, in order, as many as
\* len(bank).
C14_IndexAgrees ==
    LET cls == QuestionsBank
    IN  /\ cls.categories = [i \in DOMAIN cls.bank |-> Deref(cls.bank[i]).category]
        /\ cls.difficulties =
                [i \in DOMAIN cls.bank |-> Deref(cls.bank[i]).difficulty]
        /\ Len(cls.categories) = __len__(cls, 1)
        /\ Len(cls.difficulties) = __len__(cls, 1)
        /\ \A self \in DOMAIN instances :
              /\ \A question \in BankQuestions :
                    IsPrefix(cls.bank, append(cls, self, question).bank)
              /\ \A questions \in Iterables :
                    IsPrefix(cls.bank, extend(cls, self, questions).bank)

----------------------------------------------------------------------------
(* available_categories *)

StrictlyIncreasing(seq) ==
    \A i, j \in DOMAIN seq : i < j => StrLess(seq[i], seq[j])

\* C15: on an engine whose bank start_game can select from (the default
\* TriviaGame() included) available_categories() succeeds and returns every
\* distinct category of the bank exactly once, in sorted order.
C15_AvailableCategories ==
    (call.op = "available_categories" /\ __iter__(host.question_bank).exc = "")
        => /\ call.exc = ""
           /\ call.ret # None
           /\ StrictlyIncreasing(call.ret[1])
           /\ Range(call.ret[1]) =
                  {Deref(q).category : q \in Range(__iter__(host.question_bank).items)}

----------------------------------------------------------------------------
(* start_game(rounds=0) *)

\* C16: start_game(rounds=0) raises no error for any bank and any filters,
\* even when no question passes the filter, and leaves the session exhausted:
\* pending empty, asked empty, score 0, and the first next_question() returns
\* None.
C16_ZeroRounds ==
    /\ \A f \in Filters :
          LET r == start_game(game[1], 0, f.categories, f.difficulties)
              n == next_question(r.self)
          IN  /\ r.exc = ""
              /\ r.self._questions = <<>>
              /\ r.self._asked = <<>>
              /\ r.self._score = 0
              /\ n.exc = ""
              /\ n.ret = None
    /\ (hist[1].started /\ hist[1].rounds = 0)
          => /\ game[1]._questions = <<>>
             /\ game[1]._asked = <<>>
             /\ call.op = "next_question" => call.ret = None

\* a session of 0 rounds started on a non-empty bank with filters that
\* no question of the bank passes
C16_Witness ==
    /\ call.op = "start_game"
    /\ call.exc = ""
    /\ hist[1].rounds = 0
    /\ game[1].question_bank # <<>>
    /\ Admitted(game[1].question_bank, call.filters[1][1], call.filters[1][2]) = <<>>
    /\ game[1]._score = 0

\* the first next_question() of a session of 0 rounds has returned None
C16_WitnessNext ==
    /\ call.op = "next_question"
    /\ call.ret = None
    /\ hist[1].started
    /\ hist[1].rounds = 0
    /\ hist[1].ncalls = 1

----------------------------------------------------------------------------
(* The score *)

\* C17: the score is a non-negative integer in every reachable state, and
\* unless a start_game succeeds (which resets it) no step, be it
\* next_question, answer_question or a failed start_game, decreases it.
C17_ScoreMonotone ==
    [][ /\ game[1]._score \in Nat
        /\ game'[1]._score \in Nat
        /\ ~(call'.op = "start_game" /\ call'.exc = "")
              => game'[1]._score >= game[1]._score ]_vars

\* a wrong guess, a failed start and a next_question, each on a session that
\* has points already
C17_Witness ==
    /\ game[1]._score > 0
    /\ \/ call.op = "answer_question" /\ call.ret = Some(FALSE)
       \/ call.op = "start_game" /\ call.exc # ""

----------------------------------------------------------------------------
(* A session in which every served question is answered with its own answer *)

\* C18: in a session of R rounds where each question returned by
\* next_question is answered once with its own answer string, typed in
\* another case and padded with blanks, every answer scores, the final score
\* is R, the first R calls of next_question return a question and the call
\* after the R-th returns None.
C18_PerfectPlay ==
    LET R == Len(hist[1].queue)
    IN  hist[1].started =>
            /\ call.op = "answer_question" => call.ret = Some(TRUE)
            /\ current = None => game[1]._score = Len(game[1]._asked)
            /\ hist[1].ncalls <= R => ~hist[1].drained
            /\ hist[1].ncalls = R + 1 => hist[1].drained
            /\ hist[1].drained
                  => /\ call.op = "next_question"
                     /\ call.ret = None
                     /\ game[1]._score = R
                     /\ total_rounds(game[1]) = R

\* a session of three rounds played to its end
C18_Witness ==
    /\ hist[1].drained
    /\ hist[1].ncalls = 4
    /\ game[1]._score = 3
    /\ call.ret = None

----------------------------------------------------------------------------
(* Failures of generate_question *)

\* C19: generate_question has only typed failures: once a non-empty reply has
\* been received, a reply without a JSON object, with malformed JSON, or with
\* an object that fails Question validation (bad category, answer not among
\* the options, invalid difficulty, missing field) makes the call fail, and
\* always with InvalidQuestionFormat.
C19_TypedFailures ==
    ( /\ built.done
      /\ Lower(Strip(reply.difficulty)) \in Range(VALID_DIFFICULTIES)
      /\ reply.available
      /\ reply.content # "" )
        => /\ built.q = None => built.exc = "InvalidQuestionFormat"
           /\ ( \/ reply.content = "text"
                \/ ~reply.decodes
                \/ ~reply.complete
                \/ Question(raw).q = None ) => built.q = None

----------------------------------------------------------------------------
(* What NotEnoughQuestionsError tells *)

\* the message names the number n
Reports(message, n) == ToString(n) \in Range(message)

\* C20: the NotEnoughQuestions failure of start_game reports both the number
\* required (rounds) and the number available after filtering.
C20_CountsReported ==
    \A rounds \in Rounds, f \in Filters :
        LET r == start_game(game[1], rounds, f.categories, f.difficulties)
            available ==
                Len(Admitted(game[1].question_bank, f.categories, f.difficulties))
        IN  r.exc = "NotEnoughQuestionsError"
                => Reports(r.message, rounds) /\ Reports(r.message, available)

----------------------------------------------------------------------------
(* What answer_question leaves alone *)

\* C21: answer_question is accepted in every engine state and for any
\* Question, served last, served earlier, answered already or never served
\* (also one that is not in the bank); it never changes pending or asked,
\* and on a mismatch it changes nothing at all.
C21_AnswerFrame ==
    \A question \in DOMAIN Heap, guess \in Guesses :
        LET r == answer_question(game[1], Deref(question), guess)
        IN  /\ r.ret \in BOOLEAN
            /\ r.self._questions = game[1]._questions
            /\ r.self._asked = game[1]._asked
            /\ ~r.ret => r.self = game[1]

\* a guess scored against a question while none has been served, and a
\* second guess scored when both questions served are answered already
C21_Witness ==
    /\ call.op = "answer_question"
    /\ call.ret = Some(TRUE)
    /\ hist[1].started
    /\ \/ game[1]._asked = <<>>
       \/ game[1]._score > Len(game[1]._asked)

----------------------------------------------------------------------------
(* start_game called again and again *)

\* C22: on one engine constructed with a seed, every successful start_game
\* with the same bank, filters and rounds builds the same pending sequence,
\* however many start_game calls the engine has performed before.
C22_SamePendingEveryStart ==
    hist[1].started =>
        LET r == start_game(game[1], script.rounds, script.categories,
                            script.difficulties)
        IN  r.exc = "" => r.self._questions = hist[1].queue

\* C22 (amended): the pending sequence depends on the seed, the filtered
\* input, rounds and the number of start_game calls performed before: of two
\* engines constructed with the same seed and bank and called alike, the
\* second builds at its k-th call what the first built at its k-th call.
C22_SameCallsSamePending ==
    call.op = "start_game" =>
        /\ call.e = 2 => game[1] = game[2]
        /\ call.e = 1 =>
              start_game(game[2], script.rounds, script.categories,
                         script.difficulties).self = game[1]

\* engine 1 has been started once more than engine 2, with the same
\* arguments, and holds another pending sequence than engine 2
C22_Witness ==
    /\ call.op = "start_game"
    /\ call.e = 1
    /\ call.exc = ""
    /\ hist[2].started
    /\ Len(hist[1].queue) >= 2
    /\ hist[1].queue # hist[2].queue

----------------------------------------------------------------------------
(* A failed start_game and the random source *)

\* C23: a start_game that fails with NotEnoughQuestionsError does not consume
\* the engine's random source: whatever start_game succeeds next builds the
\* pending sequence it would have built had the failed call not been made.
C23_FailedStartKeepsRandom ==
    [][ (call'.op = "start_game" /\ call'.exc = "NotEnoughQuestionsError")
          => /\ game'[1]._rng = game[1]._rng
             /\ \A rounds \in Rounds, f \in Filters :
                   LET after  == start_game(game'[1], rounds, f.categories,
                                            f.difficulties)
                       before == start_game(game[1], rounds, f.categories,
                                            f.difficulties)
                   IN  /\ after.exc = before.exc
                       /\ after.self._questions = before.self._questions
                       /\ after.self._rng = before.self._rng ]_vars

\* a start_game has just failed on a seeded engine, before any session, on a
\* bank that has questions to shuffle
C23_Witness ==
    /\ call.op = "start_game"
    /\ call.exc = "NotEnoughQuestionsError"
    /\ game[1].random_seed # None
    /\ Len(game[1].question_bank) >= 2
    /\ ~hist[1].started

----------------------------------------------------------------------------
(* No bank entry twice in a session *)

\* the positions 1..n of a list
Positions(x) == [i \in 1..Len(x) |-> i]

\* C24: within one session no bank entry is served twice: the pending queue
\* built by start_game is a prefix of a permutation of the entries of the
\* filtered bank, so the questions of a session (R of them, R the number of
\* rounds the session has) are different bank entries.
C24_NoEntryTwice ==
    /\ \A rounds \in Rounds, f \in Filters :
          LET filtered == Admitted(game[1].question_bank, f.categories,
                                   f.difficulties)
              r == start_game(game[1], rounds, f.categories, f.difficulties)
              \* the same shuffle applied to the positions of the entries
              order == Shuffle(Positions(filtered), game[1]._rng).list
              pending == r.self._questions
          IN  r.exc = ""
                => /\ PairwiseDistinct(order)
                   /\ Range(order) = DOMAIN filtered
                   /\ Len(pending) <= Len(filtered)
                   /\ rounds >= 0 => Len(pending) = rounds
                   /\ pending = [i \in DOMAIN pending |-> filtered[order[i]]]
    /\ (hist[1].started /\ PairwiseDistinct(game[1].question_bank))
          => /\ PairwiseDistinct(hist[1].queue)
             /\ PairwiseDistinct(game[1]._asked \o game[1]._questions)

\* all three questions of a session of three rounds have been served
C24_Witness ==
    /\ hist[1].started
    /\ Len(hist[1].queue) = 3
    /\ Len(game[1]._asked) = 3
    /\ PairwiseDistinct(game[1]._asked)

----------------------------------------------------------------------------
(* TriviaSession: one score per served question *)

\* how many entries of the history are marked correct
Correct(history) == Cardinality({i \in DOMAIN history : history[i].correct})

\* C25: in a TriviaSession driven by any sequence of next_question and
\* submit_answer, each served question is scored at most once: a repeated
\* submit_answer for the current question returns the first result and
\* changes neither score nor history, submit_answer without a current
\* question returns False and changes nothing, and always
\* game.score <= len(history) <= len(asked) <= total_rounds().
C25_ScoredOnce ==
    session.constructed =>
        /\ game[1]._score <= Len(session.history)
        /\ Len(session.history) <= Len(game[1]._asked)
        /\ Len(game[1]._asked) <= total_rounds(game[1])
        /\ game[1]._score = Correct(session.history)
        /\ session.answered => session.was_correct # None
        /\ \A guess \in Guesses :
              LET r == submit_answer(session, game[1], guess)
              IN  /\ session.current_question = None
                        => r.ret = FALSE /\ r.self = session /\ r.game = game[1]
                  /\ (session.current_question # None /\ session.answered)
                        => /\ r.ret = session.was_correct[1]
                           /\ r.self = session
                           /\ r.game = game[1]

\* submit_answer has returned True for the current question, an earlier
\* question was skipped, and the player has a wrong guess left to submit for
\* the question already answered
C25_Witness ==
    /\ session.constructed
    /\ session.answered
    /\ session.was_correct = Some(TRUE)
    /\ Len(session.history) < Len(game[1]._asked)
    /\ call.op = "submit_answer"
    /\ call.ret = Some(TRUE)
    /\ \E guess \in Guesses :
          /\ Some(guess) # session.current_selection
          /\ ~answer_question(game[1], Deref(session.current_question[1]),
                              guess).ret

\* submit_answer has returned False for want of a current question
C25_WitnessNoQuestion ==
    /\ session.constructed
    /\ session.current_question = None
    /\ call.op = "submit_answer"
    /\ call.ret = Some(FALSE)

============================================================================
